---------------------------- MODULE Spec2Model ----------------------------
(***************************************************************************)
(* Model of the resume analyser's skill core                               *)
(* (backend/utils/nlp_processing.py), of the process that hosts it and of  *)
(* the endpoints of backend/main.py that call it.                          *)
(*                                                                         *)
(* Python strings are TLA+ strings; a character is a string of length 1.   *)
(* The alphabet is printable ASCII: the alias table, the stoplist and the  *)
(* regular expressions of the source are ASCII, and the specification      *)
(* names multilingual text a non-goal.                                     *)
(*                                                                         *)
(* fit_score is a float rounded to two decimals; it is kept here as the    *)
(* integer number of hundredths (66.67 is 6667).                           *)
(***************************************************************************)
EXTENDS Integers, Sequences, FiniteSets, TLC

VARIABLES
    proc,           \* "importing" | "serving" | "exited": the hosting process
    nlp,            \* "unset" | "loaded" | "missing": the module-level spaCy handle
    op,             \* "idle" | "extract_skills" | "calculate_job_fit_score" |
                    \* "_get_canonical_skill": the function that has just run
    text,           \* extract_skills: its argument
    ents,           \* extract_skills: doc.ents, the entities the NER backend gave
    skills,         \* extract_skills: the returned list
    resume_skills,  \* calculate_job_fit_score: first argument
    jd_skills,      \* calculate_job_fit_score: second argument
    report,         \* calculate_job_fit_score: the returned dict
    calls,          \* the frames of the calls in flight, one for each request
    nlp_doc,        \* what the loaded pipeline answers for the texts given to it
    helper_arg,     \* _get_canonical_skill: its argument skill_text
    helper_result,  \* _get_canonical_skill: the returned string
    job_role_vectorizer,  \* main.py: "unset" before its loading code ran, then
    job_role_model,       \*   "loaded" or "None"
    jd_ner_model,   \* main.py: "unset" | "en_core_web_lg" | "en_core_web_sm" | "None"
    endpoint,       \* the endpoint that answered last, or "none"
    request,        \* what it was sent
    response,       \* what it answered
    called          \* the collaborators it called, in order

callVars == <<calls, nlp_doc>>
helperVars == <<helper_arg, helper_result>>
apiVars == <<job_role_vectorizer, job_role_model, jd_ner_model, endpoint, request,
             response, called>>
vars == <<proc, nlp, op, text, ents, skills, resume_skills, jd_skills, report, callVars,
          helperVars, apiVars>>

---------------------------------------------------------------------------
(* Bounds of the model.                                                    *)

\* longest list handed to calculate_job_fit_score
MaxSkills == 2
\* most vocabulary words in a composed input text
MaxWords == 2
\* most entities the NER backend reports for one text
MaxEnts == 1
\* most calls in flight at once
MaxCalls == 2

---------------------------------------------------------------------------
(* Python str primitives.                                                  *)

AsciiUpper == "ABCDEFGHIJKLMNOPQRSTUVWXYZ"
AsciiLower == "abcdefghijklmnopqrstuvwxyz"
AsciiDigits == "0123456789"
\* printable ASCII in code point order: 32 (space) to 95 (_), and 97 (a) to
\* 126 (~); 96, the backquote, cannot be written in a TLA+ string
AsciiLowHalf == " !\"#$%&'()*+,-./0123456789:;<=>?@ABCDEFGHIJKLMNOPQRSTUVWXYZ[\\]^_"
AsciiHighHalf == "abcdefghijklmnopqrstuvwxyz{|}~"

CharAt(s, i) == SubSeq(s, i, i)
CharsOf(s) == {CharAt(s, i) : i \in 1..Len(s)}

UpperChars == CharsOf(AsciiUpper)
LowerChars == CharsOf(AsciiLower)
DigitChars == CharsOf(AsciiDigits)
AllChars == CharsOf(AsciiLowHalf) \cup CharsOf(AsciiHighHalf)

\* ord(c)
OrdTable ==
    [c \in AllChars |->
        IF c \in CharsOf(AsciiLowHalf)
        THEN 31 + (CHOOSE i \in 1..Len(AsciiLowHalf) : CharAt(AsciiLowHalf, i) = c)
        ELSE 96 + (CHOOSE i \in 1..Len(AsciiHighHalf) : CharAt(AsciiHighHalf, i) = c)]
Ord(c) == OrdTable[c]

LowerTable == [c \in UpperChars |->
                CharAt(AsciiLower, CHOOSE i \in 1..26 : CharAt(AsciiUpper, i) = c)]
UpperTable == [c \in LowerChars |->
                CharAt(AsciiUpper, CHOOSE i \in 1..26 : CharAt(AsciiLower, i) = c)]

char_lower(c) == IF c \in UpperChars THEN LowerTable[c] ELSE c
char_upper(c) == IF c \in LowerChars THEN UpperTable[c] ELSE c
IsCased(c) == c \in UpperChars \/ c \in LowerChars
\* \w of the re module
IsWordChar(c) == IsCased(c) \/ c \in DigitChars \/ c = "_"
\* \s of the re module, and what str.split() and str.strip() treat as blank
IsSpace(c) == c = " "

\* str.lower()
RECURSIVE str_lower(_)
str_lower(s) == IF s = "" THEN "" ELSE char_lower(Head(s)) \o str_lower(Tail(s))

\* str.upper()
RECURSIVE str_upper(_)
str_upper(s) == IF s = "" THEN "" ELSE char_upper(Head(s)) \o str_upper(Tail(s))

\* str.title(): a cased character is upper-cased when the character before it
\* is not cased, and lower-cased otherwise
RECURSIVE TitleFrom(_, _)
TitleFrom(s, previous_is_cased) ==
    IF s = "" THEN ""
    ELSE LET c == Head(s)
         IN  (IF ~IsCased(c) THEN c
              ELSE IF previous_is_cased THEN char_lower(c) ELSE char_upper(c))
             \o TitleFrom(Tail(s), IsCased(c))
str_title(s) == TitleFrom(s, FALSE)

\* str.strip()
RECURSIVE str_lstrip(_)
str_lstrip(s) == IF s /= "" /\ IsSpace(Head(s)) THEN str_lstrip(Tail(s)) ELSE s
RECURSIVE str_rstrip(_)
str_rstrip(s) ==
    IF s /= "" /\ IsSpace(CharAt(s, Len(s))) THEN str_rstrip(SubSeq(s, 1, Len(s) - 1)) ELSE s
str_strip(s) == str_rstrip(str_lstrip(s))

\* len(s.split()): the number of maximal runs of non-blank characters
WordStarts(s) ==
    {i \in 1..Len(s) : ~IsSpace(CharAt(s, i)) /\ (i = 1 \/ IsSpace(CharAt(s, i - 1)))}
WordEnds(s) ==
    {i \in 1..Len(s) : ~IsSpace(CharAt(s, i)) /\ (i = Len(s) \/ IsSpace(CharAt(s, i + 1)))}
split_len(s) == Cardinality(WordStarts(s))

\* a < b for str: code point order, a proper prefix first
RECURSIVE str_less(_, _)
str_less(a, b) ==
    IF b = "" THEN FALSE
    ELSE IF a = "" THEN TRUE
    ELSE IF Head(a) = Head(b) THEN str_less(Tail(a), Tail(b))
    ELSE Ord(Head(a)) < Ord(Head(b))

\* list.sort() / sorted() on a list of str
RECURSIVE insert_sorted(_, _)
insert_sorted(lst, x) ==
    IF lst = <<>> THEN <<x>>
    ELSE IF str_less(x, Head(lst)) THEN <<x>> \o lst
    ELSE <<Head(lst)>> \o insert_sorted(Tail(lst), x)
RECURSIVE sorted(_)
sorted(lst) ==
    IF lst = <<>> THEN <<>> ELSE insert_sorted(sorted(SubSeq(lst, 1, Len(lst) - 1)), lst[Len(lst)])

Range(f) == {f[i] : i \in DOMAIN f}

---------------------------------------------------------------------------
(* The alias table.                                                        *)

CANONICAL_SKILLS_MAP ==
  <<
    <<"Python", {"python"}>>,
    <<"Java", {"java"}>>,
    <<"C++", {"c++"}>>,
    <<"C#", {"c#"}>>,
    <<"JavaScript", {"javascript", "js"}>>,
    <<"TypeScript", {"typescript"}>>,
    <<"React", {"react", "reactjs"}>>,
    <<"Node.js", {"node.js", "nodejs"}>>,
    <<"Angular", {"angular", "angularjs"}>>,
    <<"Vue.js", {"vue.js", "vuejs"}>>,
    <<"SQL", {"sql", "mysql", "postgresql", "sqlite"}>>,
    <<"NoSQL", {"nosql", "mongodb", "cassandra", "redis", "couchbase"}>>,
    <<"ML", {"machine learning", "ml", "machinelearning"}>>,
    <<"Deep Learning", {"deep learning", "dl", "deeplearning"}>>,
    <<"NLP", {"nlp", "natural language processing"}>>,
    <<"Data Analysis", {"data analysis", "data analytics"}>>,
    <<"Data Science", {"data science"}>>,
    <<"Computer Vision", {"computer vision"}>>,
    <<"AI", {"artificial intelligence", "ai"}>>,
    <<"HTML", {"html"}>>,
    <<"CSS", {"css"}>>,
    <<"Redux", {"redux"}>>,
    <<"Express.js", {"express.js", "expressjs"}>>,
    <<"Django", {"django"}>>,
    <<"Flask", {"flask"}>>,
    <<"FastAPI", {"fastapi"}>>,
    <<"Spring Boot", {"spring boot"}>>,
    <<"AWS", {"aws", "amazon web services"}>>,
    <<"Azure", {"azure", "microsoft azure"}>>,
    <<"GCP", {"gcp", "google cloud platform"}>>,
    <<"Docker", {"docker", "containerization"}>>,
    <<"Kubernetes", {"kubernetes"}>>,
    <<"Git", {"git"}>>,
    <<"Jira", {"jira"}>>,
    <<"Jenkins", {"jenkins"}>>,
    <<"Travis CI", {"travis ci"}>>,
    <<"CircleCI", {"circleci"}>>,
    <<"TensorFlow", {"tensorflow"}>>,
    <<"PyTorch", {"pytorch"}>>,
    <<"Scikit-learn", {"scikit-learn"}>>,
    <<"Pandas", {"pandas"}>>,
    <<"NumPy", {"numpy"}>>,
    <<"Matplotlib", {"matplotlib"}>>,
    <<"Seaborn", {"seaborn"}>>,
    <<"Agile", {"agile"}>>,
    <<"Scrum", {"scrum"}>>,
    <<"DevOps", {"devops"}>>,
    <<"CI/CD", {"ci/cd"}>>,
    <<"REST API", {"rest api", "restful", "restful api", "restful services"}>>,
    <<"Microservices", {"microservices", "microservice"}>>,
    <<"Unit Testing", {"unit testing"}>>,
    <<"Integration Testing", {"integration testing"}>>,
    <<"Linux", {"linux"}>>,
    <<"Unix", {"unix"}>>,
    <<"Bash", {"bash"}>>,
    <<"Shell Scripting", {"shell scripting"}>>,
    <<"API Development", {"api development"}>>,
    <<"Web Development", {"web development", "full stack web development"}>>,
    <<"Mobile Development", {"mobile development"}>>,
    <<"Cloud Computing", {"cloud computing", "cloud platforms", "cloud"}>>,
    <<"Big Data", {"big data"}>>,
    <<"Spark", {"spark", "apache spark"}>>,
    <<"Hadoop", {"hadoop"}>>,
    <<"Kafka", {"kafka"}>>,
    <<"ETL", {"etl", "extract transform load", "apache airflow"}>>,
    <<"Data Warehousing", {"data warehousing"}>>,
    <<"Object-Oriented Programming", {"object-oriented programming", "oop"}>>,
    <<"Functional Programming", {"functional programming"}>>,
    <<"Algorithms", {"algorithms", "data structures and algorithms"}>>,
    <<"Data Structures", {"data structures"}>>,
    <<"Cybersecurity", {"cybersecurity"}>>,
    <<"Network Security", {"network security"}>>,
    <<"Cloud Security", {"cloud security"}>>,
    <<"Blockchain", {"blockchain"}>>,
    <<"Solidity", {"solidity"}>>,
    <<"UI/UX Design", {"ui/ux design"}>>,
    <<"Figma", {"figma"}>>,
    <<"Sketch", {"sketch"}>>,
    <<"Adobe XD", {"adobe xd"}>>,
    <<"Photoshop", {"photoshop"}>>,
    <<"Illustrator", {"illustrator"}>>,
    <<"Project Management", {"project management"}>>,
    <<"Risk Management", {"risk management"}>>,
    <<"Business Analysis", {"business analysis"}>>,
    <<"Requirements Gathering", {"requirements gathering"}>>,
    <<"Technical Documentation", {"technical documentation"}>>,
    <<"Communication", {"communication"}>>,
    <<"Teamwork", {"teamwork"}>>,
    <<"Problem Solving", {"problem solving"}>>,
    <<"Leadership", {"leadership"}>>,
    <<"Microsoft Office", {"microsoft office", "ms office"}>>,
    <<"Excel", {"excel"}>>,
    <<"PowerPoint", {"powerpoint"}>>,
    <<"Word", {"word"}>>,
    <<"Google Workspace", {"google workspace", "gsuite"}>>,
    <<"R", {"r"}>>,
    <<"Go", {"go"}>>,
    <<"Rust", {"rust"}>>,
    <<"Swift", {"swift"}>>,
    <<"Kotlin", {"kotlin"}>>,
    <<"PHP", {"php"}>>,
    <<"Laravel", {"laravel"}>>,
    <<"Ruby", {"ruby"}>>,
    <<"Ruby on Rails", {"ruby on rails"}>>,
    <<"XGBoost", {"xgboost"}>>,
    <<"Streamlit", {"streamlit"}>>,
    <<"Statistical Modeling", {"statistical modeling", "statistics", "probability"}>>,
    <<"Container Orchestration", {"container orchestration"}>>,
    <<"MLOps", {"mlops", "machine learning operations", "kubeflow"}>>
  >>

CanonicalKeys == {CANONICAL_SKILLS_MAP[i][1] : i \in DOMAIN CANONICAL_SKILLS_MAP}
AliasesOf(canonical) ==
    UNION {CANONICAL_SKILLS_MAP[i][2] :
             i \in {j \in DOMAIN CANONICAL_SKILLS_MAP : CANONICAL_SKILLS_MAP[j][1] = canonical}}
AllAliases == UNION {CANONICAL_SKILLS_MAP[i][2] : i \in DOMAIN CANONICAL_SKILLS_MAP}

\* the dict comprehension visits the table in order, so a later entry wins
ALIAS_TO_CANONICAL ==
    [alias \in AllAliases |->
        LET owners == {i \in DOMAIN CANONICAL_SKILLS_MAP : alias \in CANONICAL_SKILLS_MAP[i][2]}
            last == CHOOSE i \in owners : \A j \in owners : j <= i
        IN  CANONICAL_SKILLS_MAP[last][1]]

\* ALIAS_TO_CANONICAL.get(key, default)
alias_get(key, default) ==
    IF key \in DOMAIN ALIAS_TO_CANONICAL THEN ALIAS_TO_CANONICAL[key] ELSE default

get_canonical_skill_identity(skill_text) == skill_text

get_canonical_skill_case_sensitive(skill_text) == alias_get(skill_text, skill_text)

_get_canonical_skill(skill_text) == alias_get(str_lower(skill_text), skill_text)

normalize_skill_casing_title_only(skill_text) == str_title(skill_text)

_normalize_skill_casing(skill_text) ==
    LET canonical == _get_canonical_skill(skill_text)
    IN  IF \E predefined_skill_key \in CanonicalKeys : predefined_skill_key = canonical
        THEN canonical
        ELSE str_title(canonical)

---------------------------------------------------------------------------
(* calculate_job_fit_score                                                 *)

\* set(_get_canonical_skill(skill).lower() for skill in skill_list)
canonical_lower_set(skill_list) ==
    {str_lower(_get_canonical_skill(skill_list[i])) : i \in DOMAIN skill_list}

matched_lower_union(resume_skills_lower, jd_skills_lower) ==
    resume_skills_lower \cup jd_skills_lower

\* resume_skills_lower.intersection(jd_skills_lower)
matched_lower_set(resume_skills_lower, jd_skills_lower) ==
    resume_skills_lower \cap jd_skills_lower

\* One of the three presentation loops: walk skill_list in order and keep the
\* display form of an entry whose lower-cased canonical form is in key_set
\* (want_in) or is not in it (~want_in), and whose display form was not seen
\* before.
RECURSIVE display_loop(_, _, _, _, _)
display_loop(skill_list, key_set, want_in, out, seen) ==
    IF skill_list = <<>> THEN out
    ELSE LET s == Head(skill_list)
             canonical_s == _get_canonical_skill(s)
             normalized_s_display == _normalize_skill_casing(canonical_s)
             keep == ((str_lower(canonical_s) \in key_set) = want_in)
                     /\ normalized_s_display \notin seen
         IN  IF keep
             THEN display_loop(Tail(skill_list), key_set, want_in,
                               Append(out, normalized_s_display),
                               seen \cup {normalized_s_display})
             ELSE display_loop(Tail(skill_list), key_set, want_in, out, seen)

\* matched_skills: the jd entries whose canonical form is in matched_lower_skills
matched_loop(jd, matched_lower_skills) ==
    sorted(display_loop(jd, matched_lower_skills, TRUE, <<>>, {}))

missing_loop_keeps_all(jd, resume_skills_lower) ==
    sorted(display_loop(jd, {}, FALSE, <<>>, {}))

\* missing_skills: the jd entries whose canonical form is not in resume_skills_lower
missing_loop(jd, resume_skills_lower) ==
    sorted(display_loop(jd, resume_skills_lower, FALSE, <<>>, {}))

extra_loop_unsorted(resume, jd_skills_lower) ==
    display_loop(resume, jd_skills_lower, FALSE, <<>>, {})

\* extra_skills: the resume entries whose canonical form is not in jd_skills_lower
extra_loop(resume, jd_skills_lower) ==
    sorted(display_loop(resume, jd_skills_lower, FALSE, <<>>, {}))

round2_truncating(num, den) == (num * 100) \div den

\* round(num / den, 2), in hundredths, for num >= 0 and den > 0: the nearest
\* hundredth, a tie going to the even one
round2(num, den) ==
    LET scaled == num * 100
        q == scaled \div den
        r == scaled % den
    IN  IF 2 * r < den THEN q
        ELSE IF 2 * r > den THEN q + 1
        ELSE IF q % 2 = 0 THEN q ELSE q + 1

\* score = 0; if len(jd_skills_lower) > 0: score = (matched / jd) * 100;
\* round(score, 2)
fit_score_of(matched_lower_skills, jd_skills_lower) ==
    IF Cardinality(jd_skills_lower) > 0
    THEN round2(Cardinality(matched_lower_skills) * 100, Cardinality(jd_skills_lower))
    ELSE 0

calculate_job_fit_score(resume, jd) ==
    LET resume_skills_lower == canonical_lower_set(resume)
        jd_skills_lower == canonical_lower_set(jd)
        matched_lower_skills == matched_lower_set(resume_skills_lower, jd_skills_lower)
    IN  [fit_score      |-> fit_score_of(matched_lower_skills, jd_skills_lower),
         matched_skills |-> matched_loop(jd, matched_lower_skills),
         missing_skills |-> missing_loop(jd, resume_skills_lower),
         extra_skills   |-> extra_loop(resume, jd_skills_lower)]

---------------------------------------------------------------------------
(* Regular expressions of extract_skills.                                  *)

is_word_at(s, i) == i >= 1 /\ i <= Len(s) /\ IsWordChar(CharAt(s, i))

\* \b just before position i of s (i in 1..Len(s)+1): exactly one of the
\* characters on its two sides is a word character
word_boundary(s, i) == is_word_at(s, i - 1) /= is_word_at(s, i)

\* the literal lit stands in s from position i on
literal_at(s, i, lit) ==
    i + Len(lit) - 1 <= Len(s) /\ SubSeq(s, i, i + Len(lit) - 1) = lit

\* \b + re.escape(lit) + \b matches s at position i
word_match_at(s, i, lit) ==
    literal_at(s, i, lit) /\ word_boundary(s, i) /\ word_boundary(s, i + Len(lit))

\* re.search(r'\b' + re.escape(lit) + r'\b', s)
re_search_word(lit, s) == \E i \in 1..Len(s) : word_match_at(s, i, lit)

\* re.findall(r'\b(alt1|alt2|...)\b', s): scan from the left; at a position
\* the first alternative that matches wins and the scan resumes after it
RECURSIVE findall_from(_, _, _)
findall_from(alternatives, s, pos) ==
    IF pos > Len(s) THEN <<>>
    ELSE LET hits == {k \in DOMAIN alternatives : word_match_at(s, pos, alternatives[k])}
         IN  IF hits = {} THEN findall_from(alternatives, s, pos + 1)
             ELSE LET first == CHOOSE k \in hits : \A j \in hits : k <= j
                  IN  <<alternatives[first]>>
                        \o findall_from(alternatives, s, pos + Len(alternatives[first]))
re_findall(alternatives, s) == findall_from(alternatives, s, 1)

is_digits(s) == s /= "" /\ \A i \in 1..Len(s) : CharAt(s, i) \in DigitChars
\* \d+(\.\d+)? over the whole of s
is_decimal(s) ==
    \/ is_digits(s)
    \/ \E k \in 2..(Len(s) - 1) :
          /\ CharAt(s, k) = "."
          /\ is_digits(SubSeq(s, 1, k - 1))
          /\ is_digits(SubSeq(s, k + 1, Len(s)))
all_space(s, from, to) == \A j \in from..to : IsSpace(CharAt(s, j))

\* ^\d+(\.\d+)?%?$
exclusion_percentage(s) ==
    \/ is_decimal(s)
    \/ Len(s) >= 2 /\ CharAt(s, Len(s)) = "%" /\ is_decimal(SubSeq(s, 1, Len(s) - 1))
\* ^\d+$
exclusion_number(s) == is_digits(s)
\* ^\w\s*\d+(\.\d+)?$
exclusion_letter_number(s) ==
    /\ Len(s) >= 2
    /\ IsWordChar(CharAt(s, 1))
    /\ \E k \in 2..Len(s) : all_space(s, 2, k - 1) /\ is_decimal(SubSeq(s, k, Len(s)))
\* ^\d{4}$
exclusion_year(s) == Len(s) = 4 /\ is_digits(s)
\* rmse(~)?\s*\d+(\.\d+)?  anywhere in s
exclusion_rmse(s) ==
    \E i \in 1..Len(s) :
        /\ literal_at(s, i, "rmse")
        /\ \E k \in (i + 4)..Len(s) :
              /\ CharAt(s, k) \in DigitChars
              /\ \/ all_space(s, i + 4, k - 1)
                 \/ k > i + 4 /\ CharAt(s, i + 4) = "~" /\ all_space(s, i + 5, k - 1)
\* \b(hours|minutes|seconds|days|weeks|months|years|records|features|rows)\b
unit_words ==
    {"hours", "minutes", "seconds", "days", "weeks", "months", "years", "records",
     "features", "rows"}
exclusion_units(s) == \E w \in unit_words : re_search_word(w, s)
\* ^\s*[\-\*]\s*
exclusion_bullet(s) ==
    \E k \in 1..Len(s) : all_space(s, 1, k - 1) /\ CharAt(s, k) \in {"-", "*"}
\* ^(?=.*\d)(?=.*[a-zA-Z]).+$
exclusion_alphanumeric(s) ==
    /\ \E i \in 1..Len(s) : CharAt(s, i) \in DigitChars
    /\ \E i \in 1..Len(s) : IsCased(CharAt(s, i))

\* any(pattern.search(s) for pattern in compiled_exclusion_patterns)
compiled_exclusion_patterns(s) ==
    \/ exclusion_percentage(s)
    \/ exclusion_number(s)
    \/ exclusion_letter_number(s)
    \/ exclusion_year(s)
    \/ exclusion_rmse(s)
    \/ exclusion_units(s)
    \/ exclusion_bullet(s)
    \/ exclusion_alphanumeric(s)


\* non_skill_entities_lower: the NER stoplist
non_skill_entities_lower ==
  {
    "company", "project", "team", "solution", "system", "role", "position", "highlights",
    "experience", "responsibilities", "qualifications", "education", "benefits", "overview", "job overview",
    "intern", "engineer", "analyst", "developer", "manager", "specialist", "scientist", "firm",
    "client", "customer", "stakeholder", "user", "model", "product", "services", "building", "implementing",
    "research", "development", "design", "testing", "management", "quality", "quality assurance",
    "business", "strategy", "metrics", "performance", "optimization", "growth", "impact",
    "problem", "flow", "workflow", "process", "report", "communication", "leadership", "teamwork", "problem solving",
    "agile", "scrum", "kanban", "methodology", "methodologies", "principles", "concepts", "frameworks",
    "platform", "library", "tool", "software", "hardware", "service", "api", "database",
    "server", "architecture", "security", "data", "science", "learning", "network", "cloud",
    "computing", "analytics", "prediction", "forecasting", "technical", "documentation",
    "requirements", "gathering", "mobile", "web", "full stack", "distributed", "frontend", "backend",
    "quantitative", "foundation", "foundations", "exposure", "theory", "theoretical", "related",
    "rmse", "linear", "alpha", "delta", "gpa", "india", "jaipur", "delhi", "mumbai", "location",
    "june", "march", "may", "jan", "jun", "february", "april", "july", "august", "september", "october", "november", "december",
    "2020", "2021", "2022", "2023", "2024", "2025", "2026", "2027", "2028", "2029", "2030",
    "microsoft", "google", "amazon", "apple", "ibm", "oracle", "accenture", "tata",
    "gmail", "linkedin", "github", "powerpoint", "excel", "word", "outlook", "vs code",
    "pythonsoftwarefoundation", "explosion",
    "records", "rows", "features", "datasets", "day", "days", "months", "years", "percent", "rate",
    "cut", "achieved", "engineered", "spearheaded", "optimized", "collaborated", "championed", "managed", "solved", "built", "implemented", "utilized", "contributing", "designing", "maintaining", "integrate", "conduct", "participate", "translate", "ensure", "monitor",
    "pipeline", "pipelines", "models", "systems", "architecture", "products", "environment", "environments", "lifecycle",
    "workflow orchestration tools", "data visualization tools",
    "job", "title", "company", "about", "overview", "responsibilities", "required", "preferred", "qualifications", "benefits",
    "experience highlights", "selected projects", "technical skills", "education", "certifications", "profile",
    "api development", "web development", "mobile development",
    "high school", "diploma", "honours", "hons", "bachelor", "master", "phd", "university", "college", "school", "institute",
    "full stack"
  }

\* tech_patterns: the alternatives of each \b(...)\b pattern, in order
tech_patterns ==
  <<
    <<"c++", "c#", "node.js", "vue.js", "react.js", ".net", "sql", "nosql", "restful", "graphql">>,
    <<"api", "rest", "graphql", "oauth", "jwt">>,
    <<"cloud", "azure", "aws", "gcp", "vmware">>,
    <<"ml", "ai", "dl", "nlp", "mlops">>,
    <<"ci/cd", "devops", "etl">>,
    <<"xgboost", "streamlit", "jupyter">>,
    <<"data analysis", "data science", "machine learning", "deep learning", "computer vision">>,
    <<"algorithms", "data structures", "object-oriented programming", "functional programming">>,
    <<"pytorch", "tensorflow", "scikit-learn", "pandas", "numpy", "matplotlib", "seaborn">>,
    <<"big data", "time series analysis", "container orchestration", "data warehousing">>,
    <<"project management", "risk management", "statistical modeling", "web development", "api development", "mobile development", "business analysis", "requirements gathering", "technical documentation">>,
    <<"linux", "unix", "bash", "shell scripting">>,
    <<"jira", "jenkins", "travis ci", "circleci", "git">>,
    <<"express.js", "django", "flask", "spring boot">>,
    <<"html", "css", "redux">>
  >>

---------------------------------------------------------------------------
(* extract_skills                                                          *)

\* the labels whose spans are taken as skills although no alias names them
skill_like_labels == {"ORG", "PRODUCT", "LANGUAGE", "WORK_OF_ART", "EVENT"}
broad_company_names == {"microsoft", "google", "amazon", "apple", "ibm", "oracle", "apache"}

\* Phase 1: the lower-cased canonical name of every table entry one of whose
\* aliases stands in text_lower as a whole word
phase1_alias_matches(text_lower) ==
    {str_lower(CANONICAL_SKILLS_MAP[i][1]) :
        i \in {j \in DOMAIN CANONICAL_SKILLS_MAP :
                 \E alias \in CANONICAL_SKILLS_MAP[j][2] : re_search_word(alias, text_lower)}}

ner_entity_without_filters(ent) ==
    LET entity_text == str_strip(ent.text)
        normalized_ent_text_lower == str_lower(entity_text)
    IN  IF normalized_ent_text_lower \in DOMAIN ALIAS_TO_CANONICAL
             THEN {str_lower(ALIAS_TO_CANONICAL[normalized_ent_text_lower])}
        ELSE IF ent.label_ \in skill_like_labels /\ normalized_ent_text_lower \notin broad_company_names
             THEN {str_lower(entity_text)}
        ELSE {}

\* Phase 2, one entity: what it adds to found_skills_canonical_lower
ner_entity(ent) ==
    LET entity_text == str_strip(ent.text)
        normalized_ent_text_lower == str_lower(entity_text)
    IN  IF ~(1 <= split_len(entity_text) /\ split_len(entity_text) <= 5) THEN {}
        ELSE IF \/ normalized_ent_text_lower \in non_skill_entities_lower
                \/ compiled_exclusion_patterns(normalized_ent_text_lower) THEN {}
        ELSE IF normalized_ent_text_lower \in DOMAIN ALIAS_TO_CANONICAL
             THEN {str_lower(ALIAS_TO_CANONICAL[normalized_ent_text_lower])}
        ELSE IF ent.label_ \in skill_like_labels
             THEN IF normalized_ent_text_lower \notin broad_company_names
                  THEN {str_lower(entity_text)}
                  ELSE {}
        ELSE IF ent.label_ = "PERSON"
             THEN IF normalized_ent_text_lower = "r" THEN {"r"} ELSE {}
        ELSE {}

\* Phase 2: for ent in doc.ents
phase2_ner_matches(doc_ents) == UNION {ner_entity(doc_ents[i]) : i \in DOMAIN doc_ents}

phase3_match_as_found(match) == str_lower(match)

\* Phase 3, one match: _get_canonical_skill(match).lower()
phase3_match(match) == str_lower(_get_canonical_skill(match))

\* Phase 3: for pattern in tech_patterns: for match in re.findall(pattern, text_lower)
phase3_regex_matches(text_lower) ==
    UNION {{phase3_match(m) : m \in Range(re_findall(tech_patterns[p], text_lower))} :
             p \in DOMAIN tech_patterns}

\* a list of the members of a set, in some order
RECURSIVE list_of_set(_)
list_of_set(S) ==
    IF S = {} THEN <<>>
    ELSE LET x == CHOOSE x \in S : TRUE IN <<x>> \o list_of_set(S \ {x})

final_display_title_only(found_skills_canonical_lower) ==
    LET members == list_of_set(found_skills_canonical_lower)
    IN  sorted([i \in DOMAIN members |-> str_title(members[i])])

\* sorted(list(_normalize_skill_casing(s) for s in found_skills_canonical_lower))
final_display_skills(found_skills_canonical_lower) ==
    LET members == list_of_set(found_skills_canonical_lower)
    IN  sorted([i \in DOMAIN members |-> _normalize_skill_casing(members[i])])

\* Phases 1 and 3 together: what the alias table and the regex patterns find
\* in text_lower, whatever the NER backend says
rule_based_found(text_lower) ==
    phase1_alias_matches(text_lower) \cup phase3_regex_matches(text_lower)

\* the returned list, from what phases 1 and 3 found and from doc.ents
skills_from(found_by_rules, doc_ents) ==
    final_display_skills(found_by_rules \cup phase2_ner_matches(doc_ents))

\* extract_skills(text), with doc.ents = doc_ents the answer of nlp(text.lower())
extract_skills(text_arg, doc_ents) ==
    skills_from(rule_based_found(str_lower(text_arg)), doc_ents)

---------------------------------------------------------------------------
(* Inputs.                                                                 *)

SeqsUpTo(S, n) == UNION {[1..k -> S] : k \in 0..n}

\* skill strings handed to calculate_job_fit_score: an alias, an alias and the
\* canonical name of a second skill (a name that is not title-cased), and a
\* token the table does not know, in two casings
SkillTokens == {"python", "js", "JavaScript", "acme", "ACME"}
SkillLists == SeqsUpTo(SkillTokens, MaxSkills)

\* the scenario of the specification's testable properties
ScenarioResume == <<"python", "AWS", "Django">>
ScenarioJd == <<"Python", "SQL", "AWS">>

ScoreInputs == (SkillLists \X SkillLists) \cup {<<ScenarioResume, ScenarioJd>>}

\* words of the composed input texts: a canonical name in its display casing,
\* an alias that ends in a non-word character, a regex match that is no
\* alias, a name the table does not know, a stoplist word and a year
Vocabulary == {"Python", "C++", "react.js", "Acme", "team", "2024"}

RECURSIVE join_words(_)
join_words(words) ==
    IF words = <<>> THEN ""
    ELSE IF Len(words) = 1 THEN words[1]
    ELSE words[1] \o " " \o join_words(Tail(words))

ComposedTexts == {join_words(ws) : ws \in SeqsUpTo(Vocabulary, MaxWords)}
\* every alias of the table alone, followed by a blank, and in upper case
AliasTexts == UNION {{alias, alias \o " ", str_upper(alias)} : alias \in AllAliases}
\* a text of six words, so that one span can hold more than five
LongTexts == {"Python and SQL on the cloud"}
Texts == ComposedTexts \cup AliasTexts \cup LongTexts

\* tokens handed to _get_canonical_skill: every alias as the table spells it,
\* in upper case and title-cased, every canonical name, and strings the table
\* does not know
UnknownTokens == {"", "acme", "ACME", "Acme Corp", "pythonic"}
CanonicalTokens ==
    AllAliases \cup {str_upper(alias) : alias \in AllAliases}
               \cup {str_title(alias) : alias \in AllAliases}
               \cup CanonicalKeys \cup UnknownTokens

\* The labels of the NER backend, one for each way extract_skills treats a
\* label: a skill-like one, PERSON, and one it ignores.
NerLabels == {"ORG", "PERSON", "DATE"}

\* the spans of s that run from the start of a blank-separated word to the
\* end of one, and the spans that are a single blank
WordSpans(s) == {sp \in WordStarts(s) \X WordEnds(s) : sp[1] <= sp[2]}
BlankSpans(s) == {<<i, i>> : i \in {j \in 1..Len(s) : IsSpace(CharAt(s, j))}}

\* What nlp(text_lower).ents can be: at most `most` labelled spans of
\* text_lower, in order and not overlapping, each a span of whole words or a
\* blank.
RECURSIVE NerOutputsFrom(_, _, _)
NerOutputsFrom(text_lower, from, most) ==
    {<<>>} \cup
    (IF most = 0 THEN {}
     ELSE UNION {{<<[text |-> SubSeq(text_lower, span[1], span[2]), label_ |-> label]>> \o rest :
                    label \in NerLabels,
                    rest \in NerOutputsFrom(text_lower, span[2] + 1, most - 1)} :
                 span \in {sp \in WordSpans(text_lower) \cup BlankSpans(text_lower) :
                              from <= sp[1]}})
NerOutputs(text_lower) == NerOutputsFrom(text_lower, 1, MaxEnts)

---------------------------------------------------------------------------
(* The process.                                                            *)

NoReport == [fit_score |-> 0, matched_skills |-> <<>>, missing_skills |-> <<>>,
             extra_skills |-> <<>>]

\* no file, no request and no response
NoFile == [content_type |-> "", readable |-> FALSE, text |-> ""]
NoRequest == [has_resume_full_text |-> FALSE, resume_full_text |-> "",
              resume_file |-> NoFile, jd_file |-> NoFile]
NoParsedJdDetails == [required_skills_ner |-> <<>>, experience_level_ner |-> "",
                      educational_requirements_ner |-> ""]
NoResponse == [status |-> 0, detail |-> "", predicted_job_role |-> "",
               full_resume_text |-> "", jd_extracted_skills |-> <<>>,
               comparison_results |-> NoReport, parsed_jd_details |-> NoParsedJdDetails]

\* the requests that can be in flight, and the frame of one that is not
CallIds == 1..MaxCalls
IdleCall == [fn |-> "none", pc |-> "idle", text |-> "", ents |-> <<>>, found |-> {},
             skills |-> <<>>, resume_skills |-> <<>>, jd_skills |-> <<>>,
             report |-> NoReport]

Init ==
    /\ proc = "importing"
    /\ nlp = "unset"
    /\ op = "idle"
    /\ text = ""
    /\ ents = <<>>
    /\ skills = <<>>
    /\ resume_skills = <<>>
    /\ jd_skills = <<>>
    /\ report = NoReport
    /\ calls = [c \in CallIds |-> IdleCall]
    /\ nlp_doc = [t \in {} |-> <<>>]
    /\ helper_arg = ""
    /\ helper_result = ""
    /\ job_role_vectorizer = "unset"
    /\ job_role_model = "unset"
    /\ jd_ner_model = "unset"
    /\ endpoint = "none"
    /\ request = NoRequest
    /\ response = NoResponse
    /\ called = <<>>

\* import of nlp_processing: spacy.load("en_core_web_sm") succeeds
ImportLoaded ==
    /\ proc = "importing"
    /\ nlp' = "loaded"
    /\ proc' = "serving"
    /\ UNCHANGED <<op, text, ents, skills, resume_skills, jd_skills, report, callVars, helperVars, apiVars>>

\* import of nlp_processing: spacy.load raises OSError; the handler prints a
\* hint and calls exit()
ImportModelMissing ==
    /\ proc = "importing"
    /\ nlp' = "missing"
    /\ proc' = "exited"
    /\ UNCHANGED <<op, text, ents, skills, resume_skills, jd_skills, report, callVars, helperVars, apiVars>>

CalculateJobFitScore ==
    /\ proc = "serving"
    /\ op = "idle"
    /\ \E input \in ScoreInputs :
         /\ resume_skills' = input[1]
         /\ jd_skills' = input[2]
         /\ report' = calculate_job_fit_score(input[1], input[2])
    /\ op' = "calculate_job_fit_score"
    /\ UNCHANGED <<proc, nlp, text, ents, skills, callVars, helperVars, apiVars>>

\* extract_skills(text_arg). Phases 1 and 3 read text_lower alone, so they are
\* evaluated once for a text and shared by all the answers the NER backend
\* can give for it: skills' is extract_skills(text_arg, doc_ents).
ExtractSkills ==
    /\ proc = "serving"
    /\ op = "idle"
    /\ \E text_arg \in Texts :
       \E found_by_rules \in {rule_based_found(str_lower(text_arg))} :
       \E doc_ents \in NerOutputs(str_lower(text_arg)) :
         /\ text' = text_arg
         /\ ents' = doc_ents
         /\ skills' = skills_from(found_by_rules, doc_ents)
    /\ op' = "extract_skills"
    /\ UNCHANGED <<proc, nlp, resume_skills, jd_skills, report, callVars, helperVars, apiVars>>

\* _get_canonical_skill(token)
GetCanonicalSkill ==
    /\ proc = "serving"
    /\ op = "idle"
    /\ \E token \in CanonicalTokens :
         /\ helper_arg' = token
         /\ helper_result' = _get_canonical_skill(token)
    /\ op' = "_get_canonical_skill"
    /\ UNCHANGED <<proc, nlp, text, ents, skills, resume_skills, jd_skills, report, callVars, apiVars>>

\* the caller takes the result; the module keeps nothing of the call
Return ==
    /\ op /= "idle"
    /\ op' = "idle"
    /\ text' = ""
    /\ ents' = <<>>
    /\ skills' = <<>>
    /\ resume_skills' = <<>>
    /\ jd_skills' = <<>>
    /\ report' = NoReport
    /\ helper_arg' = ""
    /\ helper_result' = ""
    /\ UNCHANGED <<proc, nlp, callVars, apiVars>>

---------------------------------------------------------------------------
(* Calls in flight together. Each request runs extract_skills or           *)
(* calculate_job_fit_score in a frame of its own; the frames advance in    *)
(* any order. The loaded pipeline is a function of the text it is given:   *)
(* nlp_doc records its answer the first time a text is seen.               *)

ConcurrentTexts == {"SQL", "Acme"}
ConcurrentScoreInputs ==
    {<<ScenarioResume, ScenarioJd>>, <<(<<"python">>), <<"Python", "SQL">>>>}

\* the answers of the pipeline that the concurrent calls draw from
ConcurrentNerOutputs(text_lower) ==
    {doc_ents \in NerOutputs(text_lower) :
        \A i \in DOMAIN doc_ents : doc_ents[i].label_ = "ORG"}

\* doc = nlp(text_lower): the recorded answer, or any answer for a new text
nlp_call(text_lower) ==
    IF text_lower \in DOMAIN nlp_doc THEN {nlp_doc[text_lower]}
    ELSE ConcurrentNerOutputs(text_lower)

found_skills_module_level(frames, c) == UNION {frames[d].found : d \in DOMAIN frames}

\* found_skills_canonical_lower, a local of the frame of call c
found_skills_canonical_lower(frames, c) == frames[c].found

\* extract_skills is entered: text_lower, doc and the empty found set
BeginExtractSkills(c) ==
    /\ proc = "serving"
    /\ calls[c].pc = "idle"
    /\ \E text_arg \in ConcurrentTexts :
       \E doc_ents \in nlp_call(str_lower(text_arg)) :
         /\ calls' = [calls EXCEPT ![c] =
                [IdleCall EXCEPT !.fn = "extract_skills", !.pc = "phase1",
                                 !.text = text_arg, !.ents = doc_ents]]
         /\ nlp_doc' = [t \in DOMAIN nlp_doc \cup {str_lower(text_arg)} |->
                           IF t = str_lower(text_arg) THEN doc_ents ELSE nlp_doc[t]]
    /\ UNCHANGED <<proc, nlp, op, text, ents, skills, resume_skills, jd_skills, report, helperVars, apiVars>>

Phase1(c) ==
    /\ calls[c].pc = "phase1"
    /\ calls' = [calls EXCEPT ![c].pc = "phase2",
                              ![c].found = found_skills_canonical_lower(calls, c)
                                    \cup phase1_alias_matches(str_lower(calls[c].text))]
    /\ UNCHANGED <<proc, nlp, op, text, ents, skills, resume_skills, jd_skills, report, nlp_doc, helperVars, apiVars>>

Phase2(c) ==
    /\ calls[c].pc = "phase2"
    /\ calls' = [calls EXCEPT ![c].pc = "phase3",
                              ![c].found = found_skills_canonical_lower(calls, c)
                                    \cup phase2_ner_matches(calls[c].ents)]
    /\ UNCHANGED <<proc, nlp, op, text, ents, skills, resume_skills, jd_skills, report, nlp_doc, helperVars, apiVars>>

Phase3(c) ==
    /\ calls[c].pc = "phase3"
    /\ calls' = [calls EXCEPT ![c].pc = "final",
                              ![c].found = found_skills_canonical_lower(calls, c)
                                    \cup phase3_regex_matches(str_lower(calls[c].text))]
    /\ UNCHANGED <<proc, nlp, op, text, ents, skills, resume_skills, jd_skills, report, nlp_doc, helperVars, apiVars>>

FinalDisplay(c) ==
    /\ calls[c].pc = "final"
    /\ calls' = [calls EXCEPT ![c].pc = "done",
                              ![c].skills = final_display_skills(
                                                found_skills_canonical_lower(calls, c))]
    /\ UNCHANGED <<proc, nlp, op, text, ents, skills, resume_skills, jd_skills, report, nlp_doc, helperVars, apiVars>>

\* calculate_job_fit_score is entered
BeginCalculateJobFitScore(c) ==
    /\ proc = "serving"
    /\ calls[c].pc = "idle"
    /\ \E input \in ConcurrentScoreInputs :
         calls' = [calls EXCEPT ![c] =
                [IdleCall EXCEPT !.fn = "calculate_job_fit_score", !.pc = "compare",
                                 !.resume_skills = input[1], !.jd_skills = input[2]]]
    /\ UNCHANGED <<proc, nlp, op, text, ents, skills, resume_skills, jd_skills, report, nlp_doc, helperVars, apiVars>>

\* the body of calculate_job_fit_score: it reads its two arguments and the
\* alias table, and writes locals only
Compare(c) ==
    /\ calls[c].pc = "compare"
    /\ calls' = [calls EXCEPT ![c].pc = "done",
                              ![c].report = calculate_job_fit_score(calls[c].resume_skills,
                                                                    calls[c].jd_skills)]
    /\ UNCHANGED <<proc, nlp, op, text, ents, skills, resume_skills, jd_skills, report, nlp_doc, helperVars, apiVars>>

\* the caller takes the result and the frame is gone
ReturnCall(c) ==
    /\ calls[c].pc = "done"
    /\ calls' = [calls EXCEPT ![c] = IdleCall]
    /\ UNCHANGED <<proc, nlp, op, text, ents, skills, resume_skills, jd_skills, report, nlp_doc, helperVars, apiVars>>

---------------------------------------------------------------------------
(* backend/main.py: loading of the two optional models, and the endpoints. *)
(* A handler runs to its answer in one step: the handlers hold no await    *)
(* between their first read of a module-level name and their answer other  *)
(* than the reading of the uploaded files, which comes first.              *)

\* joblib.load of the vectorizer, then of the model; a failure of either
\* leaves both names None
LoadJobRoleClassifier ==
    /\ proc = "serving"
    /\ job_role_model = "unset"
    /\ \E outcome \in {"both loaded", "vectorizer load raises", "model load raises"} :
         /\ job_role_vectorizer' = IF outcome = "both loaded" THEN "loaded" ELSE "None"
         /\ job_role_model' = IF outcome = "both loaded" THEN "loaded" ELSE "None"
    /\ UNCHANGED <<proc, nlp, op, text, ents, skills, resume_skills, jd_skills, report,
                   callVars, helperVars, jd_ner_model, endpoint, request, response, called>>

\* spacy.load("en_core_web_lg"), after a download if need be; else the small
\* model; else None
LoadJdNerModel ==
    /\ proc = "serving"
    /\ job_role_model /= "unset"
    /\ jd_ner_model = "unset"
    /\ jd_ner_model' \in {"en_core_web_lg", "en_core_web_sm", "None"}
    /\ UNCHANGED <<proc, nlp, op, text, ents, skills, resume_skills, jd_skills, report,
                   callVars, helperVars, job_role_vectorizer, job_role_model, endpoint,
                   request, response, called>>

\* the application object exists once the module has run to its end
AppReady == proc = "serving" /\ jd_ner_model /= "unset"

\* raise HTTPException(status_code, detail)
http_exception(status_code, detail_text) ==
    [NoResponse EXCEPT !.status = status_code, !.detail = detail_text]

\* nlp_doc once the pipeline has answered doc_ents for text_lower
nlp_doc_with(answers, text_lower, doc_ents) ==
    [t \in DOMAIN answers \cup {text_lower} |->
        IF t = text_lower THEN doc_ents ELSE answers[t]]

\* texts of requests and of uploaded files
ApiTexts == {"SQL 3+years", "Acme"}
\* labels the classifier can answer with
JobRoles == {"Data Scientist", "Web Developer"}

\* extract_skills on the texts of requests: what phases 1 and 3 find in each
\* text, evaluated once, and the list returned when nlp answers doc_ents
api_found_by_rules ==
    [t \in {str_lower(x) : x \in ApiTexts \cup {""}} |-> rule_based_found(t)]
api_extract_skills(text_arg, doc_ents) ==
    skills_from(api_found_by_rules[str_lower(text_arg)], doc_ents)

PredictRequests ==
    {[NoRequest EXCEPT !.has_resume_full_text = TRUE, !.resume_full_text = t] :
        t \in ApiTexts \cup {""}} \cup {NoRequest}

classifier_check_skipped(model, vectorizer) == FALSE

\* not job_role_model or not job_role_vectorizer
classifier_unavailable(model, vectorizer) == model = "None" \/ vectorizer = "None"

\* predict_job_role(request_data), where nlp answers doc_ents and the
\* classifier answers role: the response and the collaborators called
predict_job_role(request_data, doc_ents, role) ==
    IF classifier_unavailable(job_role_model, job_role_vectorizer)
    THEN [response |-> http_exception(500,
              "Job role prediction model not loaded. Please check backend logs."),
          called |-> <<>>]
    ELSE LET resume_full_text ==
                 IF request_data.has_resume_full_text THEN request_data.resume_full_text
                 ELSE ""
         IN  IF resume_full_text = ""
             THEN [response |-> http_exception(400,
                       "No full resume text provided for job role prediction."),
                   called |-> <<>>]
             ELSE LET extracted_resume_skills == api_extract_skills(resume_full_text, doc_ents)
                      processed_skills_string == join_words(extracted_resume_skills)
                      call_extract == [callee |-> "extract_skills", arg |-> resume_full_text]
                      call_transform == [callee |-> "job_role_vectorizer.transform",
                                         arg |-> processed_skills_string]
                      call_predict == [callee |-> "job_role_model.predict",
                                       arg |-> "transformed_skills"]
                  IN  IF job_role_vectorizer /= "loaded"
                      THEN \* None has no attribute transform
                           [response |-> http_exception(500, "Internal Server Error"),
                            called |-> <<call_extract, call_transform>>]
                      ELSE IF job_role_model /= "loaded"
                      THEN \* None has no attribute predict
                           [response |-> http_exception(500, "Internal Server Error"),
                            called |-> <<call_extract, call_transform, call_predict>>]
                      ELSE [response |-> [NoResponse EXCEPT !.status = 200,
                                                            !.predicted_job_role = role],
                            called |-> <<call_extract, call_transform, call_predict>>]

PredictJobRole ==
    /\ AppReady
    /\ endpoint = "none"
    /\ \E request_data \in PredictRequests :
       \E doc_ents \in nlp_call(str_lower(request_data.resume_full_text)) :
       \E role \in JobRoles :
       \E answer \in {predict_job_role(request_data, doc_ents, role)} :
         /\ request' = request_data
         /\ response' = answer.response
         /\ called' = answer.called
         /\ nlp_doc' = IF answer.called = <<>> THEN nlp_doc
                       ELSE nlp_doc_with(nlp_doc, str_lower(request_data.resume_full_text),
                                         doc_ents)
    /\ endpoint' = "predict_job_role"
    /\ UNCHANGED <<proc, nlp, op, text, ents, skills, resume_skills, jd_skills, report,
                   calls, helperVars, job_role_vectorizer, job_role_model, jd_ner_model>>

\* uploaded files: a PDF and a DOCX that can be read, a PDF that cannot, and
\* a file of another type
PdfType == "application/pdf"
DocxType == "application/vnd.openxmlformats-officedocument.wordprocessingml.document"
ApiFiles ==
    {[content_type |-> PdfType, readable |-> TRUE, text |-> t] : t \in ApiTexts}
    \cup {[content_type |-> DocxType, readable |-> TRUE, text |-> "Acme"],
          [content_type |-> PdfType, readable |-> FALSE, text |-> ""],
          [content_type |-> "text/plain", readable |-> TRUE, text |-> "Acme"]}
CompareRequests ==
    {[NoRequest EXCEPT !.resume_file = rf, !.jd_file = jf] : rf, jf \in ApiFiles}

\* _extract_text_from_file(file): the text, or the HTTPException it raises
extract_text_from_file(file) ==
    IF file.content_type = PdfType
    THEN IF file.readable THEN [ok |-> TRUE, text |-> file.text, detail |-> ""]
         ELSE [ok |-> FALSE, text |-> "", detail |-> "Error processing PDF"]
    ELSE IF file.content_type = DocxType
    THEN IF file.readable THEN [ok |-> TRUE, text |-> file.text, detail |-> ""]
         ELSE [ok |-> FALSE, text |-> "", detail |-> "Error processing DOCX"]
    ELSE [ok |-> FALSE, text |-> "", detail |-> "Unsupported file type."]

\* lit in s
contains(s, lit) == \E i \in 1..Len(s) : literal_at(s, i, lit)
\* re.search(r'\d+\+', s)
digits_plus(s) ==
    \E i \in 1..(Len(s) - 1) : CharAt(s, i) \in DigitChars /\ CharAt(s, i + 1) = "+"

\* the answers of the JD pipeline that the endpoint draws from
JdNerOutputs(jd_text) ==
    {doc_ents \in NerOutputs(jd_text) :
        \A i \in DOMAIN doc_ents : doc_ents[i].label_ \in {"ORG", "DATE"}}

required_skill_labels ==
    {"SKILL", "LANGUAGE", "PRODUCT", "ORG", "NORP", "FAC", "GPE", "PERSON", "LOC"}
experience_labels == {"DATE", "CARDINAL", "QUANTITY"}
education_labels == {"ORG", "EDU", "GPE"}
education_words == {"university", "college", "degree", "ph.d", "bachelor", "master"}

\* for ent in doc.ents: the three fields after the entities of doc_ents from
\* position i on, given the fields so far
RECURSIVE parse_jd_ents(_, _, _)
parse_jd_ents(doc_ents, i, details) ==
    IF i > Len(doc_ents) THEN details
    ELSE LET ent == doc_ents[i]
             ent_lower == str_lower(ent.text)
         IN  parse_jd_ents(doc_ents, i + 1,
               IF ent.label_ \in required_skill_labels
               THEN [details EXCEPT !.required_skills_ner = Append(@, ent.text)]
               ELSE IF ent.label_ \in experience_labels
               THEN IF /\ \/ contains(ent_lower, "year")
                          \/ contains(ent_lower, "experience")
                          \/ digits_plus(ent.text)
                       /\ details.experience_level_ner = ""
                    THEN [details EXCEPT !.experience_level_ner = ent.text]
                    ELSE details
               ELSE IF ent.label_ \in education_labels
               THEN IF /\ \E w \in education_words : contains(ent_lower, w)
                       /\ details.educational_requirements_ner = ""
                    THEN [details EXCEPT !.educational_requirements_ner = ent.text]
                    ELSE details
               ELSE details)

\* list(set(lst)): the members of lst once each, in any order
list_set_orders(lst) ==
    {order \in SeqsUpTo(Range(lst), Len(lst)) :
        Range(order) = Range(lst) /\ Len(order) = Cardinality(Range(lst))}

jd_skills_from_ner_when_loaded(model, rule_based_skills, required_skills_ner) ==
    IF model /= "None" THEN required_skills_ner ELSE rule_based_skills

\* jd_skills_for_comparison: extract_skills(jd_text) in the branch where
\* jd_ner_model is loaded and in the branch where it is None
jd_skills_for_comparison(model, rule_based_skills, required_skills_ner) ==
    IF model /= "None" THEN rule_based_skills ELSE rule_based_skills

\* compare_resume_and_jd(resume_file, jd_file), where nlp answers resume_ents
\* and jd_ents for the two texts, the JD pipeline answers jd_doc_ents and
\* list(set(...)) gives required_order: the response and the collaborators
\* called
compare_resume_and_jd(request_data, resume_ents, jd_ents, jd_doc_ents, required_order) ==
    LET resume_read == extract_text_from_file(request_data.resume_file)
        jd_read == extract_text_from_file(request_data.jd_file)
    IN  IF ~resume_read.ok
        THEN [response |-> http_exception(400, resume_read.detail), called |-> <<>>]
        ELSE IF ~jd_read.ok
        THEN [response |-> http_exception(400, jd_read.detail), called |-> <<>>]
        ELSE LET resume_text == resume_read.text
                 jd_text == jd_read.text
                 resume_skills_found == api_extract_skills(resume_text, resume_ents)
                 parsed == IF jd_ner_model /= "None"
                           THEN [parse_jd_ents(jd_doc_ents, 1, NoParsedJdDetails)
                                    EXCEPT !.required_skills_ner = required_order]
                           ELSE NoParsedJdDetails
                 jd_skills_found ==
                     jd_skills_for_comparison(jd_ner_model,
                                              api_extract_skills(jd_text, jd_ents),
                                              parsed.required_skills_ner)
                 call_resume == [callee |-> "extract_skills", arg |-> resume_text]
                 call_jd_ner == [callee |-> "jd_ner_model", arg |-> jd_text]
                 call_jd == [callee |-> "extract_skills", arg |-> jd_text]
                 call_score == [callee |-> "calculate_job_fit_score", arg |-> ""]
             IN  [response |->
                     [NoResponse EXCEPT
                         !.status = 200,
                         !.full_resume_text = resume_text,
                         !.jd_extracted_skills = jd_skills_found,
                         !.comparison_results =
                             calculate_job_fit_score(resume_skills_found, jd_skills_found),
                         !.parsed_jd_details = parsed],
                  called |-> IF jd_ner_model /= "None"
                             THEN <<call_resume, call_jd_ner, call_jd, call_score>>
                             ELSE <<call_resume, call_jd, call_score>>]

CompareResumeAndJd ==
    /\ AppReady
    /\ endpoint = "none"
    /\ \E request_data \in CompareRequests :
       \E resume_ents \in nlp_call(str_lower(request_data.resume_file.text)) :
       \E jd_ents \in IF request_data.jd_file.text = request_data.resume_file.text
                      THEN {resume_ents}
                      ELSE nlp_call(str_lower(request_data.jd_file.text)) :
       \E jd_doc_ents \in IF jd_ner_model = "None" THEN {<<>>}
                          ELSE JdNerOutputs(request_data.jd_file.text) :
       \E required_order \in
              list_set_orders(parse_jd_ents(jd_doc_ents, 1, NoParsedJdDetails).required_skills_ner) :
       \E answer \in {compare_resume_and_jd(request_data, resume_ents, jd_ents,
                                            jd_doc_ents, required_order)} :
         /\ request' = request_data
         /\ response' = answer.response
         /\ called' = answer.called
         /\ nlp_doc' = IF answer.called = <<>> THEN nlp_doc
                       ELSE nlp_doc_with(
                                nlp_doc_with(nlp_doc, str_lower(request_data.resume_file.text),
                                             resume_ents),
                                str_lower(request_data.jd_file.text), jd_ents)
    /\ endpoint' = "compare_resume_and_jd"
    /\ UNCHANGED <<proc, nlp, op, text, ents, skills, resume_skills, jd_skills, report,
                   calls, helperVars, job_role_vectorizer, job_role_model, jd_ner_model>>

\* the answer is sent
Respond ==
    /\ endpoint /= "none"
    /\ endpoint' = "none"
    /\ request' = NoRequest
    /\ response' = NoResponse
    /\ called' = <<>>
    /\ UNCHANGED <<proc, nlp, op, text, ents, skills, resume_skills, jd_skills, report,
                   callVars, helperVars, job_role_vectorizer, job_role_model, jd_ner_model>>

---------------------------------------------------------------------------
(* Specifications.                                                         *)

NextScore == ImportLoaded \/ ImportModelMissing \/ CalculateJobFitScore \/ Return
SpecScore == Init /\ [][NextScore]_vars

NextExtract == ImportLoaded \/ ImportModelMissing \/ ExtractSkills \/ Return
SpecExtract == Init /\ [][NextExtract]_vars

NextCanonical == ImportLoaded \/ ImportModelMissing \/ GetCanonicalSkill \/ Return
SpecCanonical == Init /\ [][NextCanonical]_vars

NextApi ==
    \/ ImportLoaded
    \/ ImportModelMissing
    \/ LoadJobRoleClassifier
    \/ LoadJdNerModel
    \/ PredictJobRole
    \/ CompareResumeAndJd
    \/ Respond
SpecApi == Init /\ [][NextApi]_vars

NextConcurrent ==
    \/ ImportLoaded
    \/ ImportModelMissing
    \/ \E c \in CallIds :
          \/ BeginExtractSkills(c)
          \/ Phase1(c)
          \/ Phase2(c)
          \/ Phase3(c)
          \/ FinalDisplay(c)
          \/ BeginCalculateJobFitScore(c)
          \/ Compare(c)
          \/ ReturnCall(c)
SpecConcurrent == Init /\ [][NextConcurrent]_vars

Next ==
    \/ ImportLoaded
    \/ ImportModelMissing
    \/ ExtractSkills
    \/ CalculateJobFitScore
    \/ GetCanonicalSkill
    \/ Return
    \/ LoadJobRoleClassifier
    \/ LoadJdNerModel
    \/ PredictJobRole
    \/ CompareResumeAndJd
    \/ Respond
    \/ \E c \in CallIds :
          \/ BeginExtractSkills(c)
          \/ Phase1(c)
          \/ Phase2(c)
          \/ Phase3(c)
          \/ FinalDisplay(c)
          \/ BeginCalculateJobFitScore(c)
          \/ Compare(c)
          \/ ReturnCall(c)
Spec == Init /\ [][Next]_vars

---------------------------------------------------------------------------
(* What the claims speak of, read off the alias table alone.               *)

\* the lower-cased canonical form of a token, and its display casing
IsKnownAlias(token) == token \in DOMAIN ALIAS_TO_CANONICAL
CanonLowerOf(token) ==
    LET key == str_lower(token)
    IN  IF IsKnownAlias(key) THEN str_lower(ALIAS_TO_CANONICAL[key]) ELSE key
DisplayOf(token) ==
    LET key == str_lower(token)
    IN  IF IsKnownAlias(key) THEN ALIAS_TO_CANONICAL[key] ELSE str_title(token)

CanonLowerSet(skill_list) == {CanonLowerOf(skill_list[i]) : i \in DOMAIN skill_list}
DisplaySet(skill_list) == {DisplayOf(skill_list[i]) : i \in DOMAIN skill_list}

IsAscending(lst) == \A i \in 1..(Len(lst) - 1) : str_less(lst[i], lst[i + 1])

Scored == op = "calculate_job_fit_score"

---------------------------------------------------------------------------
(* Claims about calculate_job_fit_score, checked under SpecScore.          *)

\* C1: matched_skills and missing_skills together are exactly the display
\* forms of the canonicalized target list, and they share no element.
C1_PartitionLaw ==
    Scored =>
        /\ Range(report.matched_skills) \cup Range(report.missing_skills)
             = DisplaySet(jd_skills)
        /\ Range(report.matched_skills) \cap Range(report.missing_skills) = {}

\* a target with a matched and a missing skill
C1_Witness ==
    /\ Scored
    /\ report.matched_skills /= <<>>
    /\ report.missing_skills /= <<>>

\* C2: fit_score is 0 for an empty canonical target set T and otherwise
\* 100 * |S \cap T| / |T| to the nearest hundredth; the count is that of
\* distinct canonical skills, the length of matched_skills.
C2_FitScoreFormula ==
    Scored =>
        \A S \in {CanonLowerSet(resume_skills)} : \A T \in {CanonLowerSet(jd_skills)} :
        \A m \in {Cardinality(S \cap T)} : \A n \in {Cardinality(T)} :
            /\ n = 0 => report.fit_score = 0
            /\ n > 0 => /\ 2 * (report.fit_score * n - 10000 * m) <= n
                        /\ 2 * (10000 * m - report.fit_score * n) <= n
            /\ Len(report.matched_skills) = m

\* a target list that names one skill twice, matched by the source
C2_Witness ==
    /\ Scored
    /\ Len(jd_skills) > Cardinality(CanonLowerSet(jd_skills))
    /\ report.fit_score = 10000

\* C3: 0 <= fit_score <= 100 for all inputs.
C3_ScoreBounds ==
    Scored => report.fit_score >= 0 /\ report.fit_score <= 10000

\* a full score from a source that holds more skills than the target asks
C3_Witness ==
    /\ Scored
    /\ report.fit_score = 10000
    /\ report.extra_skills /= <<>>

\* C4: with an empty target, the score is 0, nothing is matched or missing,
\* and extra_skills is the ascending duplicate-free list of the display forms
\* of the source skills.
C4_EmptyTarget ==
    (Scored /\ jd_skills = <<>>) =>
        /\ report.fit_score = 0
        /\ report.matched_skills = <<>>
        /\ report.missing_skills = <<>>
        /\ IsAscending(report.extra_skills)
        /\ Range(report.extra_skills) = DisplaySet(resume_skills)

\* an empty target and two source skills that sorting puts in another order
C4_Witness ==
    /\ Scored
    /\ jd_skills = <<>>
    /\ Len(report.extra_skills) = 2
    /\ report.extra_skills[1] = DisplayOf(resume_skills[2])

\* C5: equal non-empty canonical sets give score 100 and nothing missing or
\* extra, whatever the order, duplicates, casing or alias used.
C5_PerfectMatch ==
    Scored =>
        \A S \in {CanonLowerSet(resume_skills)} : \A T \in {CanonLowerSet(jd_skills)} :
            (S = T /\ T /= {}) =>
                /\ report.fit_score = 10000
                /\ report.missing_skills = <<>>
                /\ report.extra_skills = <<>>

\* the two lists name the same skills and have no string in common
C5_Witness ==
    /\ Scored
    /\ CanonLowerSet(resume_skills) = CanonLowerSet(jd_skills)
    /\ Cardinality(CanonLowerSet(jd_skills)) = 2
    /\ Range(resume_skills) \cap Range(jd_skills) = {}

\* the ascending list of a finite set of strings
RECURSIVE AscendingListOf(_)
AscendingListOf(S) ==
    IF S = {} THEN <<>>
    ELSE LET least == CHOOSE x \in S : \A y \in S \ {x} : str_less(x, y)
         IN  <<least>> \o AscendingListOf(S \ {least})

\* the display casing of a lower-cased canonical form
DisplayOfKey(key) == IF IsKnownAlias(key) THEN ALIAS_TO_CANONICAL[key] ELSE str_title(key)

\* the report as a function of the two canonical sets alone
ReportOfSets(S, T) ==
    [fit_score      |-> IF T = {} THEN 0
                        ELSE round2(100 * Cardinality(S \cap T), Cardinality(T)),
     matched_skills |-> AscendingListOf({DisplayOfKey(k) : k \in S \cap T}),
     missing_skills |-> AscendingListOf({DisplayOfKey(k) : k \in T \ S}),
     extra_skills   |-> AscendingListOf({DisplayOfKey(k) : k \in S \ T})]

ScenarioReport ==
    [fit_score |-> 6667, matched_skills |-> <<"AWS", "Python">>,
     missing_skills |-> <<"SQL">>, extra_skills |-> <<"Django">>]

\* C6: the report is a function of the canonicalized sets of the two lists
\* alone, so another alias or casing of a skill, a duplicate or another order
\* changes nothing; the scenario's report is the one the specification gives.
C6_DependsOnCanonicalSetsOnly ==
    Scored =>
        /\ report = ReportOfSets(CanonLowerSet(resume_skills), CanonLowerSet(jd_skills))
        /\ (resume_skills = ScenarioResume /\ jd_skills = ScenarioJd)
               => report = ScenarioReport

\* the scenario has been scored
C6_Witness ==
    /\ Scored
    /\ resume_skills = ScenarioResume
    /\ jd_skills = ScenarioJd
    /\ report.fit_score = 6667

---------------------------------------------------------------------------
(* Claims about extract_skills and the module import, checked under        *)
(* SpecExtract.                                                            *)

Extracted == op = "extract_skills"

\* lit stands in s as a whole word: no word character touches it on either
\* side
ContainsWholeWord(s, lit) ==
    \E i \in 1..Len(s) :
        /\ literal_at(s, i, lit)
        /\ ~is_word_at(s, i - 1)
        /\ ~is_word_at(s, i + Len(lit))

\* C7: whenever the text holds an alias of a canonical skill as a whole word,
\* in any letter case, the returned list holds that canonical skill; the
\* aliases "c++" and "c#" included.
C7_AliasConvergence ==
    Extracted =>
        \A i \in DOMAIN CANONICAL_SKILLS_MAP : \A alias \in CANONICAL_SKILLS_MAP[i][2] :
            ContainsWholeWord(str_lower(text), alias)
                => CANONICAL_SKILLS_MAP[i][1] \in Range(skills)

\* C8: the returned list is in ascending order and no two of its entries are
\* equal when compared case-insensitively.
C8_SortedCaseInsensitiveUnique ==
    Extracted =>
        /\ \A i \in 1..(Len(skills) - 1) : ~str_less(skills[i + 1], skills[i])
        /\ \A i, j \in DOMAIN skills :
               i /= j => str_lower(skills[i]) /= str_lower(skills[j])

\* a regex match that is an alias of a skill the alias table also found, next
\* to a second entry
C8_Witness ==
    /\ Extracted
    /\ Len(skills) >= 2
    /\ \E p \in DOMAIN tech_patterns :
         \E m \in Range(re_findall(tech_patterns[p], str_lower(text))) :
            /\ IsKnownAlias(m)
            /\ str_lower(ALIAS_TO_CANONICAL[m]) /= m
            /\ ALIAS_TO_CANONICAL[m] \in Range(skills)

\* C9: an entry whose lower case is a known alias is exactly the canonical
\* display string of that alias.
C9_CanonicalFixedPoint ==
    Extracted =>
        \A i \in DOMAIN skills :
            IsKnownAlias(str_lower(skills[i]))
                => skills[i] = ALIAS_TO_CANONICAL[str_lower(skills[i])]

\* the NER backend gave a span that is an alias, the span passed the filters,
\* and the list holds the canonical name, which is not the span title-cased
C9_Witness ==
    /\ Extracted
    /\ \E i \in DOMAIN ents :
         /\ IsKnownAlias(ents[i].text)
         /\ ner_entity(ents[i]) /= {}
         /\ ALIAS_TO_CANONICAL[ents[i].text] \in Range(skills)
         /\ ALIAS_TO_CANONICAL[ents[i].text] /= str_title(ents[i].text)

\* C10: when the NER backend cannot be loaded the process does not end, and
\* extract_skills stays callable.
C10_NerAbsenceIsNotAFailure ==
    nlp = "missing" => (proc = "serving" /\ ENABLED ExtractSkills)

---------------------------------------------------------------------------
(* Claims about the NER filters, the shared tables and the endpoints.      *)

\* what phases 1 and 3 find in each input text, evaluated once
FoundByRulesOf == [t \in {str_lower(x) : x \in Texts} |-> rule_based_found(t)]

\* an NER candidate that one of the three filters rejects
IsFilteredCandidate(ent) ==
    \/ split_len(str_strip(ent.text)) = 0
    \/ split_len(str_strip(ent.text)) > 5
    \/ str_lower(str_strip(ent.text)) \in non_skill_entities_lower
    \/ compiled_exclusion_patterns(str_lower(str_strip(ent.text)))

\* doc_ents without its i-th candidate
WithoutEnt(doc_ents, i) ==
    [j \in 1..(Len(doc_ents) - 1) |-> IF j < i THEN doc_ents[j] ELSE doc_ents[j + 1]]

\* C11: an NER candidate that fails the length bound, is in the stoplist or
\* matches an exclusion pattern adds nothing: the list is the one returned
\* without that candidate; and what the alias table and the regex patterns
\* find in the text is in the list whatever the filters reject.
C11_FilteredCandidateContributesNothing ==
    Extracted =>
        /\ \A i \in DOMAIN ents :
              IsFilteredCandidate(ents[i])
                 => skills = skills_from(FoundByRulesOf[str_lower(text)], WithoutEnt(ents, i))
        /\ \A key \in FoundByRulesOf[str_lower(text)] : DisplayOfKey(key) \in Range(skills)

\* a span of more than five words with a skill-like label is dropped, in a
\* text where the alias table finds an alias that is also a stoplist entry
C11_Witness ==
    /\ Extracted
    /\ \E i \in DOMAIN ents :
         /\ split_len(str_strip(ents[i].text)) > 5
         /\ ents[i].label_ \in skill_like_labels
    /\ \E alias \in AllAliases \cap non_skill_entities_lower :
         /\ re_search_word(alias, str_lower(text))
         /\ ALIAS_TO_CANONICAL[alias] \in Range(skills)

\* the calls that have produced their result
DoneCalls(fn) == {c \in CallIds : calls[c].pc = "done" /\ calls[c].fn = fn}

\* C12: calls in flight together leave the module's handle on the pipeline as
\* it was loaded, each call returns what it returns when run alone, and two
\* calls with the same input return the same ordered output.
C12_CallsDoNotInterfere ==
    /\ (\E c \in CallIds : calls[c].pc /= "idle") => (proc = "serving" /\ nlp = "loaded")
    /\ \A c \in DoneCalls("extract_skills") :
          calls[c].skills = extract_skills(calls[c].text, nlp_doc[str_lower(calls[c].text)])
    /\ \A c \in DoneCalls("calculate_job_fit_score") :
          calls[c].report = calculate_job_fit_score(calls[c].resume_skills, calls[c].jd_skills)
    /\ \A c, d \in DoneCalls("extract_skills") :
          calls[c].text = calls[d].text => calls[c].skills = calls[d].skills
    /\ \A c, d \in DoneCalls("calculate_job_fit_score") :
          (calls[c].resume_skills = calls[d].resume_skills /\ calls[c].jd_skills = calls[d].jd_skills)
              => calls[c].report = calls[d].report

\* two calls of extract_skills on different texts ran together and both are
\* done, one of them with a skill that only the NER backend found
C12_Witness ==
    \E c, d \in DoneCalls("extract_skills") :
        /\ calls[c].text /= calls[d].text
        /\ calls[c].skills /= calls[d].skills
        /\ calls[d].ents /= <<>>
        /\ calls[d].skills /= <<>>

\* the canonical names whose alias set holds the lower-cased token
OwnersOf(token) ==
    {CANONICAL_SKILLS_MAP[i][1] :
        i \in {j \in DOMAIN CANONICAL_SKILLS_MAP : str_lower(token) \in CANONICAL_SKILLS_MAP[j][2]}}

Canonicalized == op = "_get_canonical_skill"

\* C13: _get_canonical_skill maps a token that is an alias in any letter case
\* to the one canonical name that owns the alias, returns every other token
\* unchanged, maps every canonical name to itself, and applied to its own
\* result returns that result; no alias belongs to two canonical names.
C13_CanonicalizeIdempotent ==
    Canonicalized =>
        /\ Cardinality(OwnersOf(helper_arg)) <= 1
        /\ \A K \in OwnersOf(helper_arg) :
              /\ helper_result = K
              /\ _get_canonical_skill(str_upper(helper_arg)) = K
              /\ _get_canonical_skill(str_lower(helper_arg)) = K
        /\ OwnersOf(helper_arg) = {} => helper_result = helper_arg
        /\ helper_arg \in CanonicalKeys => helper_result = helper_arg
        /\ _get_canonical_skill(helper_result) = helper_result

\* an alias spelled in upper case was mapped to a canonical name that is
\* spelled otherwise
C13_Witness ==
    /\ Canonicalized
    /\ OwnersOf(helper_arg) /= {}
    /\ helper_arg /= str_lower(helper_arg)
    /\ helper_arg \notin CanonicalKeys
    /\ helper_result \in CanonicalKeys
    /\ helper_result /= helper_arg

Predicted == endpoint = "predict_job_role"

\* C14: when the classifier model or its vectorizer is not loaded,
\* predict_job_role answers with the 'model not loaded' error and calls
\* neither extract_skills nor the vectorizer nor the model; it answers with a
\* prediction only when both are loaded and the request holds a non-empty
\* resume text.
C14_AvailabilityCheckFirst ==
    Predicted =>
        /\ (job_role_model /= "loaded" \/ job_role_vectorizer /= "loaded")
              => /\ response.status = 500
                 /\ response.detail =
                        "Job role prediction model not loaded. Please check backend logs."
                 /\ response.predicted_job_role = ""
                 /\ called = <<>>
        /\ response.status = 200
              => /\ job_role_model = "loaded"
                 /\ job_role_vectorizer = "loaded"
                 /\ request.has_resume_full_text
                 /\ request.resume_full_text /= ""

\* a request with a resume text was refused because the classifier did not
\* load
C14_Witness ==
    /\ Predicted
    /\ job_role_model = "None"
    /\ request.resume_full_text /= ""
    /\ response.status = 500
    /\ called = <<>>

Compared == endpoint = "compare_resume_and_jd" /\ response.status = 200

\* what nlp answered for a text of the request
NlpAnswerFor(text_arg) == nlp_doc[str_lower(text_arg)]

\* C15: the JD skill list of the answer is extract_skills(jd_text) and the
\* comparison is calculate_job_fit_score(extract_skills(resume_text), that
\* list), whether jd_ner_model is loaded or None; without the JD model the
\* parsed JD details are the empty ones.
C15_ScoringIgnoresJdNerModel ==
    Compared =>
        /\ response.jd_extracted_skills =
               api_extract_skills(request.jd_file.text, NlpAnswerFor(request.jd_file.text))
        /\ response.comparison_results =
               calculate_job_fit_score(
                   api_extract_skills(request.resume_file.text,
                                      NlpAnswerFor(request.resume_file.text)),
                   response.jd_extracted_skills)
        /\ jd_ner_model = "None" => response.parsed_jd_details = NoParsedJdDetails

\* the JD model is loaded and names a required skill that extract_skills does
\* not find, and the scored list is the one of extract_skills
C15_Witness ==
    /\ Compared
    /\ jd_ner_model /= "None"
    /\ response.parsed_jd_details.required_skills_ner /= <<>>
    /\ response.parsed_jd_details.required_skills_ner /= response.jd_extracted_skills
    /\ response.comparison_results.matched_skills /= <<>>

=============================================================================
